---- MODULE Spec2Model ----
(***************************************************************************)
(* A model of recordexpungPDX's Expunger (expunger/expunger.py) and of the *)
(* Users endpoint (endpoints/users.py).                                    *)
(*                                                                         *)
(* A Python string is modelled as a sequence of text fragments: a literal  *)
(* piece of an f-string is one fragment, an interpolated value contributes *)
(* its own fragments, and str.join inserts the separator as a fragment     *)
(* between the joined strings.  A case number and a ruling text are one    *)
(* fragment each.                                                          *)
(*                                                                         *)
(* A Charge object is identified by <<i, j>>: the j-th charge of the i-th  *)
(* case of the record.  charge.case()() is the i-th case.                  *)
(***************************************************************************)
EXTENDS Naturals, Sequences, FiniteSets

\* ------------------------------------------------------------------ bounds

MaxCases == 2
MaxCharges == 2
\* Expunger constructions and run() invocations on the record, together.
MaxOps == 2
\* The longest password a request carries.
MaxPasswordLen == 9

\* ------------------------------------------------------------- record model

\* Case numbers are unique within a record (spec.md, section 3): the i-th case
\* of a record carries the i-th number of this pool.
CaseNumberPool == <<"A", "B", "C", "D">>

CaseNumbers == {CaseNumberPool[i] : i \in 1..Len(CaseNumberPool)}

Rulings == {"Foo", "Bar"}

\* DispositionStatus values; UNRECOGNIZED is the one expunger.py reads.
UNRECOGNIZED == "UNRECOGNIZED"

CONVICTED == "CONVICTED"

\* A Disposition value: status and the raw ruling text.
Dispositions ==
    {[status |-> CONVICTED, ruling |-> "Convicted"]}
        \cup [status : {UNRECOGNIZED}, ruling : Rulings]

\* charge.disposition is Optional: <<>> is None, <<d>> is the disposition d.
OptionalDispositions == {<<>>} \cup {<<d>> : d \in Dispositions}

ChargeValues == [skip_analysis : BOOLEAN, disposition : OptionalDispositions]

\* The ways to hand k charges to n cases in case order: owner[m] is the case
\* of the m-th charge of the flattened sequence.
Owners(n, k) ==
    {owner \in [1..k -> 1..n] : \A a, b \in 1..k : a < b => owner[a] <= owner[b]}

\* The charges, among vals, that owner gives to case i, in order.
ChargesOfCase(vals, owner, i) ==
    LET idx == SelectSeq([m \in 1..Len(vals) |-> m], LAMBDA m : owner[m] = i)
    IN  [j \in 1..Len(idx) |-> vals[idx[j]]]

\* The record of n cases, closed as cl says, whose flattened charges are vals,
\* handed to the cases as owner says.
MakeRecord(n, cl, vals, owner) ==
    [cases |-> [i \in 1..n |->
                   [case_number |-> CaseNumberPool[i],
                    closed      |-> cl[i],
                    charges     |-> ChargesOfCase(vals, owner, i)]]]

\* Record.charges: the charges of all cases, flattened in case order.
Charges(rec) ==
    LET F[i \in 0..Len(rec.cases)] ==
            IF i = 0 THEN <<>>
            ELSE F[i - 1] \o [j \in 1..Len(rec.cases[i].charges) |-> <<i, j>>]
    IN  F[Len(rec.cases)]

ChargeIds(rec) ==
    UNION {{<<i, j>> : j \in 1..Len(rec.cases[i].charges)} : i \in 1..Len(rec.cases)}

\* The Charge object behind an identifier, and its accessors.
ChargeAt(rec, c) == rec.cases[c[1]].charges[c[2]]

CaseOf(rec, c) == rec.cases[c[1]]

HasDisposition(rec, c) == ChargeAt(rec, c).disposition # <<>>

DispositionOf(rec, c) == ChargeAt(rec, c).disposition[1]

\* ------------------------------------------------------------ string model

\* sep.join(strs): the strings of the sequence strs, sep between neighbours.
RECURSIVE Join(_, _)
Join(strs, sep) ==
    IF strs = <<>> THEN <<>>
    ELSE IF Len(strs) = 1 THEN Head(strs)
    ELSE Head(strs) \o <<sep>> \o Join(Tail(strs), sep)

\* The orders in which iterating a Python set may yield its elements: the
\* order of a set of strings is not fixed by the language (hash seed).
IterationOrders(S) ==
    {o \in [1..Cardinality(S) -> S] :
        \A a, b \in 1..Cardinality(S) : a # b => o[a] # o[b]}

OpenCasePrefix == "All charges are ineligible because there is one or more open case: "

OpenCaseSuffix == ". Open cases with valid dispositions are still included in time analysis. Otherwise they are ignored, so time analysis may be inaccurate for other charges."

MissingName == "a missing"

UnrecognizedName == "an unrecognized"

SingularHead == "Case "

SingularMiddle == " has a charge with "

SingularTail == " disposition.\nThis might be an error in the OECI database. Time analysis is ignoring this charge and may be inaccurate for other charges."

PluralHead == "The following cases have charges with "

PluralTail == " disposition.\nThis might be an error in the OECI database. Time analysis is ignoring these charges and may be inaccurate for other charges.\nCase numbers: "

\* ------------------------------------------------------------- expunger.py

\* A variant of _without_skippable_charges that forgets skip_analysis().
_without_skippable_charges_keeps_skipped(rec, charges) ==
    SelectSeq(charges, LAMBDA c : HasDisposition(rec, c))

\* Expunger._without_skippable_charges
_without_skippable_charges(rec, charges) ==
    SelectSeq(charges,
              LAMBDA c : ~ChargeAt(rec, c).skip_analysis /\ HasDisposition(rec, c))

\* Expunger.run, line 31: the cases that are not closed, in case order.
OpenCases(rec) ==
    SelectSeq([i \in 1..Len(rec.cases) |-> i], LAMBDA i : ~rec.cases[i].closed)

\* A variant of the open-case step that names every case of the record.
OpenCaseErrors_names_all_cases(rec, open_cases) ==
    IF Len(open_cases) > 0
    THEN LET case_numbers ==
                 Join([k \in 1..Len(rec.cases) |-> <<rec.cases[k].case_number>>], ",")
         IN  <<<<OpenCasePrefix>> \o case_numbers \o <<OpenCaseSuffix>>>>
    ELSE <<>>

\* Expunger.run, lines 32-36: what the open-case step appends to the log.
OpenCaseErrors(rec, open_cases) ==
    IF Len(open_cases) > 0
    THEN LET case_numbers ==
                 Join([k \in 1..Len(open_cases) |->
                          <<rec.cases[open_cases[k]].case_number>>], ",")
         IN  <<<<OpenCasePrefix>> \o case_numbers \o <<OpenCaseSuffix>>>>
    ELSE <<>>

\* A variant of _filter_cases_with_errors that forgets to ask closed().
_filter_cases_with_errors_open_too(rec, charges) ==
    LET Loop[k \in 0..Len(charges)] ==
            IF k = 0 THEN <<{}, {}>>
            ELSE LET acc == Loop[k - 1]
                     charge == charges[k]
                     case_number == CaseOf(rec, charge).case_number
                 IN  IF ~ChargeAt(rec, charge).skip_analysis
                     THEN IF ~HasDisposition(rec, charge)
                          THEN <<acc[1] \cup {<<case_number>>}, acc[2]>>
                          ELSE IF DispositionOf(rec, charge).status = UNRECOGNIZED
                          THEN <<acc[1],
                                 acc[2] \cup {<<case_number, ": ",
                                                DispositionOf(rec, charge).ruling>>}>>
                          ELSE acc
                     ELSE acc
    IN  Loop[Len(charges)]

\* Expunger._filter_cases_with_errors: the two sets, as a pair.
_filter_cases_with_errors(rec, charges) ==
    LET Loop[k \in 0..Len(charges)] ==
            IF k = 0 THEN <<{}, {}>>
            ELSE LET acc == Loop[k - 1]
                     charge == charges[k]
                     case_number == CaseOf(rec, charge).case_number
                 IN  IF ~ChargeAt(rec, charge).skip_analysis
                     THEN IF ~HasDisposition(rec, charge) /\ CaseOf(rec, charge).closed
                          THEN <<acc[1] \cup {<<case_number>>}, acc[2]>>
                          ELSE IF HasDisposition(rec, charge)
                                  /\ DispositionOf(rec, charge).status = UNRECOGNIZED
                          THEN <<acc[1],
                                 acc[2] \cup {<<case_number, ": ",
                                                DispositionOf(rec, charge).ruling>>}>>
                          ELSE acc
                     ELSE acc
    IN  Loop[Len(charges)]

\* Expunger._build_disposition_error_message; error_cases is the set in the
\* order its iteration yields it.
_build_disposition_error_message(error_cases, disposition_error_name) ==
    IF Len(error_cases) = 1
    THEN <<SingularHead>> \o error_cases[1]
             \o <<SingularMiddle, disposition_error_name, SingularTail>>
    ELSE LET cases_list_string == Join(error_cases, ", ")
         IN  <<PluralHead, disposition_error_name, PluralTail>> \o cases_list_string

\* A variant of _build_disposition_errors that reports the unrecognized
\* dispositions first.
_build_disposition_errors_unrecognized_first(rec, charges) ==
    LET filtered == _filter_cases_with_errors(rec, charges)
    IN  {(IF filtered[2] # {}
          THEN <<_build_disposition_error_message(ou, UnrecognizedName)>>
          ELSE <<>>)
         \o
         (IF filtered[1] # {}
          THEN <<_build_disposition_error_message(om, MissingName)>>
          ELSE <<>>) :
            om \in IterationOrders(filtered[1]),
            ou \in IterationOrders(filtered[2])}

\* Expunger._build_disposition_errors: the lists of messages it may return,
\* one for each iteration order of the two sets.
_build_disposition_errors(rec, charges) ==
    LET filtered == _filter_cases_with_errors(rec, charges)
        cases_with_missing_disposition == filtered[1]
        cases_with_unrecognized_disposition == filtered[2]
    IN  {(IF cases_with_missing_disposition # {}
          THEN <<_build_disposition_error_message(om, MissingName)>>
          ELSE <<>>)
         \o
         (IF cases_with_unrecognized_disposition # {}
          THEN <<_build_disposition_error_message(ou, UnrecognizedName)>>
          ELSE <<>>) :
            om \in IterationOrders(cases_with_missing_disposition),
            ou \in IterationOrders(cases_with_unrecognized_disposition)}

\* A variant of the returned value that tolerates one open case.
RunResult_tolerates_one(open_cases) == Len(open_cases) <= 1

\* A variant of += that assigns.
Extend_assigns(log, new) == new

\* Expunger.run, lines 34 and 37: record.errors += new.
Extend(log, new) == log \o new

\* Expunger.run, line 39: the value returned.
RunResult(open_cases) == Len(open_cases) = 0

\* ------------------------------------- collaborators (spec.md, 4.2 and 4.3)

\* ChargesSummarizer.summarize: every charge given appears in exactly one
\* group; the groups here are the charges of one case each, in case order.
Summarize(rec, charges) ==
    LET group(i) == SelectSeq(charges, LAMBDA c : c[1] = i)
        all == [i \in 1..Len(rec.cases) |-> group(i)]
    IN  SelectSeq(all, LAMBDA g : g # <<>>)

\* The number of times charge c is reachable through the groups.
RECURSIVE Occurrences(_, _)
Occurrences(groups, c) ==
    IF groups = <<>> THEN 0
    ELSE Len(SelectSeq(Head(groups), LAMBDA x : x = c)) + Occurrences(Tail(groups), c)

\* The verdict TimeAnalyzer writes into a charge's eligibility slot.
TimeEligibility == "time_eligibility"

\* TimeAnalyzer.evaluate: the eligibility slots after the call.
TimeAnalyzerEvaluate(charges_with_summary, elig) ==
    [c \in DOMAIN elig |->
        IF Occurrences(charges_with_summary, c) > 0 THEN <<TimeEligibility>> ELSE elig[c]]

\* The number of writes to each slot after TimeAnalyzer.evaluate.
TimeAnalyzerWrites(charges_with_summary, w) ==
    [c \in DOMAIN w |-> w[c] + Occurrences(charges_with_summary, c)]

\* ------------------------------------------------------------------- state

VARIABLES
    record,        \* the Record under analysis: its cases, their charges
    errors,        \* record.errors
    eligibility,   \* each charge's eligibility slot: <<>> unset, <<v>> set
    writes,        \* the number of writes to each charge's eligibility slot
    expungers,     \* the Expunger instances constructed over the record
    pc,            \* where the thread is: "idle", or inside run()
    self,          \* the Expunger whose run() is executing (0: none)
    open_cases,    \* run()'s local open_cases (indices into record.cases)
    result,        \* what the last run() returned: <<>> none yet, <<b>>
    runs,          \* the number of run() invocations started
    users,         \* the users table: email -> stored row
    request,       \* the last HTTP request the Users view served
    response       \* the response the Users view gave to it

vars == <<record, errors, eligibility, writes, expungers, pc, self, open_cases,
          result, runs, users, request, response>>

expunger_vars == <<record, errors, eligibility, writes, expungers, pc, self,
                   open_cases, result, runs>>

users_vars == <<users, request, response>>

NoRequest == [method |-> "", json |-> <<>>]

NoResponse == [status |-> 0, body |-> {}]

\* The state once a loader has built the record: nothing analysed yet.
InitRecord(rec) ==
    /\ record = rec
    /\ errors = <<>>
    /\ eligibility = [c \in ChargeIds(rec) |-> <<>>]
    /\ writes = [c \in ChargeIds(rec) |-> 0]
    /\ expungers = <<>>
    /\ pc = "idle"
    /\ self = 0
    /\ open_cases = <<>>
    /\ result = <<>>
    /\ runs = 0

InitUsersTable ==
    /\ users = <<>>
    /\ request = NoRequest
    /\ response = NoResponse

Init ==
    /\ \E n \in 0..MaxCases, k \in 0..MaxCharges :
           \E cl \in [1..n -> BOOLEAN], vals \in [1..k -> ChargeValues],
              owner \in Owners(n, k) :
               InitRecord(MakeRecord(n, cl, vals, owner))
    /\ InitUsersTable

\* Expunger.__init__
Construct ==
    /\ pc = "idle"
    /\ Len(expungers) + runs < MaxOps
    /\ LET analyzable_charges == _without_skippable_charges(record, Charges(record))
       IN  expungers' = Append(expungers,
               [analyzable_charges   |-> analyzable_charges,
                charges_with_summary |-> Summarize(record, analyzable_charges)])
    /\ UNCHANGED <<record, errors, eligibility, writes, pc, self, open_cases,
                   result, runs>>
    /\ UNCHANGED users_vars

\* Expunger.run, lines 31-36: find the open cases, report them.
RunOpenCases(e) ==
    /\ pc = "idle"
    /\ Len(expungers) + runs < MaxOps
    /\ e \in 1..Len(expungers)
    /\ self' = e
    /\ runs' = runs + 1
    /\ open_cases' = OpenCases(record)
    /\ errors' = Extend(errors, OpenCaseErrors(record, OpenCases(record)))
    /\ result' = <<>>
    /\ pc' = "line37"
    /\ UNCHANGED <<record, eligibility, writes, expungers>>
    /\ UNCHANGED users_vars

\* Expunger.run, line 37: report the disposition problems of all charges.
RunDispositionErrors ==
    /\ pc = "line37"
    /\ \E record_errors \in _build_disposition_errors(record, Charges(record)) :
           errors' = Extend(errors, record_errors)
    /\ pc' = "line38"
    /\ UNCHANGED <<record, eligibility, writes, expungers, self, open_cases,
                   result, runs>>
    /\ UNCHANGED users_vars

\* A variant of the last step that leaves TimeAnalyzer out when a case is open.
RunEvaluate_only_when_closed ==
    /\ pc = "line38"
    /\ IF Len(open_cases) = 0
       THEN /\ eligibility' =
                   TimeAnalyzerEvaluate(expungers[self].charges_with_summary, eligibility)
            /\ writes' = TimeAnalyzerWrites(expungers[self].charges_with_summary, writes)
       ELSE UNCHANGED <<eligibility, writes>>
    /\ result' = <<RunResult(open_cases)>>
    /\ pc' = "idle"
    /\ self' = 0
    /\ open_cases' = <<>>
    /\ UNCHANGED <<record, errors, expungers, runs>>
    /\ UNCHANGED users_vars

\* Expunger.run, lines 38-39: TimeAnalyzer.evaluate, then return.
RunEvaluate ==
    /\ pc = "line38"
    /\ eligibility' =
           TimeAnalyzerEvaluate(expungers[self].charges_with_summary, eligibility)
    /\ writes' = TimeAnalyzerWrites(expungers[self].charges_with_summary, writes)
    /\ result' = <<RunResult(open_cases)>>
    /\ pc' = "idle"
    /\ self' = 0
    /\ open_cases' = <<>>
    /\ UNCHANGED <<record, errors, expungers, runs>>
    /\ UNCHANGED users_vars

\* ---------------------------------------------------- endpoints/users.py

Emails == {"a@x.org", "b@x.org"}

\* A password of n characters.
Password(n) == [k \in 1..n |-> "x"]

Passwords == {Password(n) : n \in 0..MaxPasswordLen}

MinPasswordLen == 8

RequiredFields == {"email", "name", "group_name", "password", "admin"}

\* request.get_json(): <<>> is None, <<data>> a JSON object, which holds any
\* of the fields.
JsonBodies ==
    {<<>>} \cup
    {<<[f \in F |-> v[f]]>> :
        F \in SUBSET RequiredFields,
        v \in [email : Emails, name : {"Ann"}, group_name : {"staff"},
               password : Passwords, admin : BOOLEAN]}

\* expungeservice.request.error: abort the request with this status.
ErrorResponse(code, message) == [status |-> code, body |-> {[message |-> message]}]

\* expungeservice.request.check_data_fields: all the fields are in the data.
check_data_fields(data, fields) == fields \subseteq DOMAIN data

\* werkzeug's generate_password_hash, as a function of the password alone.
generate_password_hash(password) == <<"hash", Len(password)>>

\* A variant of the length check that refuses 8 characters too.
PasswordTooShort_refuses_eight(data) == Len(data.password) <= MinPasswordLen

\* Users.post, line 35: the password is too short.
PasswordTooShort(data) == Len(data.password) < MinPasswordLen

\* Users.post, for a request admin_auth_required has let through.  The row's
\* user_id and date_created, which the database assigns, are left out.
UsersPost(json) ==
    /\ request' = [method |-> "POST", json |-> json]
    /\ IF json = <<>>
       THEN /\ response' = ErrorResponse(400, "No json data in request body")
            /\ UNCHANGED users
       ELSE LET data == json[1] IN
            IF ~check_data_fields(data, RequiredFields)
            THEN /\ response' = ErrorResponse(400, "missing one or more required fields")
                 /\ UNCHANGED users
            ELSE IF PasswordTooShort(data)
            THEN /\ response' =
                        ErrorResponse(422, "New password is less than 8 characters long!")
                 /\ UNCHANGED users
            ELSE IF data.email \in DOMAIN users
            THEN /\ response' =
                        ErrorResponse(422, "User with that email address already exists")
                 /\ UNCHANGED users
            ELSE /\ users' =
                        [m \in DOMAIN users \cup {data.email} |->
                            IF m = data.email
                            THEN [email         |-> data.email,
                                  name          |-> data.name,
                                  group_name    |-> data.group_name,
                                  password_hash |-> generate_password_hash(data.password),
                                  admin         |-> data.admin]
                            ELSE users[m]]
                 /\ response' =
                        [status |-> 201,
                         body   |-> {[email |-> data.email, admin |-> data.admin]}]
    /\ UNCHANGED expunger_vars

\* Users.get
UsersGet ==
    /\ request' = [method |-> "GET", json |-> <<>>]
    /\ response' =
           [status |-> 201,
            body   |-> {[email      |-> users[m].email,
                         name       |-> users[m].name,
                         group_name |-> users[m].group_name,
                         admin      |-> users[m].admin] : m \in DOMAIN users}]
    /\ UNCHANGED users
    /\ UNCHANGED expunger_vars

InitUsers ==
    /\ InitRecord(MakeRecord(0, <<>>, <<>>, <<>>))
    /\ InitUsersTable

NextUsers ==
    \/ \E json \in JsonBodies : UsersPost(json)
    \/ UsersGet

SpecUsers == InitUsers /\ [][NextUsers]_vars

Next ==
    \/ Construct
    \/ \E e \in 1..Len(expungers) : RunOpenCases(e)
    \/ RunDispositionErrors
    \/ RunEvaluate

Spec == Init /\ [][Next]_vars

\* ------------------------------------------------- reading the error log

HasFragment(m, f) == \E k \in 1..Len(m) : m[k] = f

Count(m, f) == Len(SelectSeq(m, LAMBDA t : t = f))

IsOpenCaseDiagnostic(m) == m[1] = OpenCasePrefix

IsMissingDiagnostic(m) ==
    m[1] \in {SingularHead, PluralHead} /\ HasFragment(m, MissingName)

IsUnrecognizedDiagnostic(m) ==
    m[1] \in {SingularHead, PluralHead} /\ HasFragment(m, UnrecognizedName)

OpenCaseDiagnostics == SelectSeq(errors, IsOpenCaseDiagnostic)

MissingDiagnostics == SelectSeq(errors, IsMissingDiagnostic)

UnrecognizedDiagnostics == SelectSeq(errors, IsUnrecognizedDiagnostic)

\* The class of each entry of the log, in log order.
Kinds ==
    [k \in 1..Len(errors) |->
        IF IsOpenCaseDiagnostic(errors[k]) THEN "open"
        ELSE IF IsMissingDiagnostic(errors[k]) THEN "missing"
        ELSE IF IsUnrecognizedDiagnostic(errors[k]) THEN "unrecognized"
        ELSE "other"]

\* ------------------------------------------------ what the record contains

CaseIndices == 1..Len(record.cases)

ChargeIndices(i) == 1..Len(record.cases[i].charges)

AllClosed == \A i \in CaseIndices : record.cases[i].closed

\* The numbers of the open cases, in the order of record.cases.
RECURSIVE OpenNumbersFrom(_)
OpenNumbersFrom(i) ==
    IF i > Len(record.cases) THEN <<>>
    ELSE (IF record.cases[i].closed THEN <<>> ELSE <<record.cases[i].case_number>>)
             \o OpenNumbersFrom(i + 1)

Skipped(c) == ChargeAt(record, c).skip_analysis

Undisposed(c) == ChargeAt(record, c).disposition = <<>>

Unrecognized(c) ==
    /\ ChargeAt(record, c).disposition # <<>>
    /\ ChargeAt(record, c).disposition[1].status = UNRECOGNIZED

\* The closed cases owning a charge that is analysed and has no disposition.
MissingCases ==
    {i \in CaseIndices :
        /\ record.cases[i].closed
        /\ \E j \in ChargeIndices(i) : ~Skipped(<<i, j>>) /\ Undisposed(<<i, j>>)}

\* The cases owning a charge that is analysed and whose status is Unrecognized.
UnrecognizedCases ==
    {i \in CaseIndices :
        \E j \in ChargeIndices(i) : ~Skipped(<<i, j>>) /\ Unrecognized(<<i, j>>)}

\* A charge is analyzable: analysed, and its disposition is present.
Analyzable(c) == ~Skipped(c) /\ ~Undisposed(c)

AfterOneRun == runs = 1 /\ pc = "idle"

\* ------------------------------------------------------------------ claims

\* C1: run() returns true if and only if no case of the record is open,
\* whatever the dispositions, the skip_analysis flags and the diagnostics.
C1_RunTrueIffNoOpenCase ==
    (pc = "idle" /\ result # <<>>) => (result[1] <=> AllClosed)

\* C1 witness: run() returned true although it reported both a missing and
\* an unrecognized disposition.
C1_Witness ==
    /\ pc = "idle" /\ result = <<TRUE>>
    /\ Len(MissingDiagnostics) > 0 /\ Len(UnrecognizedDiagnostics) > 0

\* C2: after one run() on a record with an open case, the log holds exactly
\* one open-case diagnostic, which names the open case numbers and no other,
\* comma-joined, in the order of record.cases; with no open case, it holds none.
C2_OneOpenCaseDiagnostic ==
    AfterOneRun =>
        IF AllClosed
        THEN Len(OpenCaseDiagnostics) = 0
        ELSE /\ Len(OpenCaseDiagnostics) = 1
             /\ LET m == OpenCaseDiagnostics[1]
                    named == OpenNumbersFrom(1)
                IN  /\ Len(m) = 2 * Len(named) + 1
                    /\ m[1] = OpenCasePrefix
                    /\ m[Len(m)] = OpenCaseSuffix
                    /\ \A k \in 1..Len(named) : m[2 * k] = named[k]
                    /\ \A k \in 1..(Len(named) - 1) : m[2 * k + 1] = ","

\* C2 witness: one run() over a record with two open cases, named by the one
\* open-case diagnostic of the log.
C2_Witness ==
    /\ AfterOneRun
    /\ Len(OpenNumbersFrom(1)) >= 2
    /\ Len(OpenCaseDiagnostics) = 1

\* C3: after one run() the log holds at most one missing-disposition
\* diagnostic; it names exactly the closed cases owning an analysed charge
\* without disposition: none means no diagnostic, one the singular phrasing
\* with that case only, two or more the plural phrasing with each number once.
C3_MissingDispositionDiagnostic ==
    AfterOneRun =>
        /\ Len(MissingDiagnostics) = (IF MissingCases = {} THEN 0 ELSE 1)
        /\ MissingCases # {} =>
             LET m == MissingDiagnostics[1]
             IN  /\ \A i \in CaseIndices :
                        Count(m, record.cases[i].case_number)
                            = (IF i \in MissingCases THEN 1 ELSE 0)
                 /\ Cardinality(MissingCases) = 1 =>
                        \E i \in MissingCases :
                            m = <<SingularHead, record.cases[i].case_number,
                                  SingularMiddle, MissingName, SingularTail>>
                 /\ Cardinality(MissingCases) >= 2 =>
                        /\ m[1] = PluralHead /\ m[2] = MissingName /\ m[3] = PluralTail
                        /\ Len(m) = 3 + 2 * Cardinality(MissingCases) - 1
                        /\ \A k \in 1..(Cardinality(MissingCases) - 1) :
                               m[3 + 2 * k] = ", "

\* C3 witness: one run() over two closed cases that each lack a disposition.
C3_Witness == AfterOneRun /\ Cardinality(MissingCases) >= 2


\* The identifier "<case_number>: <ruling text>" of charge c occurs in m.
Identified(m, c) ==
    \E k \in 1..(Len(m) - 2) :
        /\ m[k] = CaseOf(record, c).case_number
        /\ m[k + 1] = ": "
        /\ m[k + 2] = DispositionOf(record, c).ruling

\* C4: after one run() every analysed charge with an Unrecognized status is
\* identified as "<case_number>: <ruling text>" in the one unrecognized-
\* disposition diagnostic, whose phrasing is singular exactly when one case
\* has such charges and plural exactly when two or more cases have.
C4_UnrecognizedGroupedByCase ==
    AfterOneRun =>
        /\ Len(UnrecognizedDiagnostics) = (IF UnrecognizedCases = {} THEN 0 ELSE 1)
        /\ UnrecognizedCases # {} =>
             LET m == UnrecognizedDiagnostics[1]
             IN  /\ \A c \in ChargeIds(record) :
                        (~Skipped(c) /\ Unrecognized(c)) => Identified(m, c)
                 /\ m[1] = SingularHead <=> Cardinality(UnrecognizedCases) = 1
                 /\ m[1] = PluralHead <=> Cardinality(UnrecognizedCases) >= 2

\* Charge c is reachable through Expunger e's charges_with_summary.
Reachable(e, c) == Occurrences(expungers[e].charges_with_summary, c) > 0

\* Charge c is among the charges Expunger e handed to the summarizer.
Handed(e, c) ==
    \E k \in 1..Len(expungers[e].analyzable_charges) :
        expungers[e].analyzable_charges[k] = c

\* C5: a charge whose disposition status is Unrecognized is not among the
\* charges the constructor hands to ChargesSummarizer.summarize, is not
\* reachable by TimeAnalyzer.evaluate, and its eligibility slot stays unset.
C5_UnrecognizedExcluded ==
    \A c \in ChargeIds(record) :
        Unrecognized(c) =>
            /\ \A e \in 1..Len(expungers) : ~Handed(e, c) /\ ~Reachable(e, c)
            /\ eligibility[c] = <<>>

\* C6: a charge with skip_analysis() true is in no unit given to TimeAnalyzer,
\* its eligibility slot is never written, and it contributes to no diagnostic:
\* every case a missing-disposition diagnostic names, and every identifier of
\* an unrecognized-disposition diagnostic, comes from an analysed charge.
C6_SkippedChargesUntouched ==
    /\ \A c \in ChargeIds(record) :
           Skipped(c) =>
               /\ eligibility[c] = <<>> /\ writes[c] = 0
               /\ \A e \in 1..Len(expungers) : ~Handed(e, c) /\ ~Reachable(e, c)
    /\ LET missing == MissingCases IN
       \A k \in 1..Len(errors) :
           LET m == errors[k] IN
           /\ IsMissingDiagnostic(m) =>
                  \A n \in 1..Len(m), i \in CaseIndices :
                      m[n] = record.cases[i].case_number => i \in missing
           /\ IsUnrecognizedDiagnostic(m) =>
                  \A n \in 1..(Len(m) - 2) :
                      m[n + 1] = ": " =>
                          \E c \in ChargeIds(record) :
                              /\ ~Skipped(c) /\ Unrecognized(c)
                              /\ CaseOf(record, c).case_number = m[n]
                              /\ DispositionOf(record, c).ruling = m[n + 2]

\* C6 witness: a run() completed over a closed case whose skipped charge has
\* no disposition and a case whose skipped charge has an Unrecognized one.
C6_Witness ==
    /\ runs >= 1 /\ pc = "idle"
    /\ \E c, d \in ChargeIds(record) :
           /\ Skipped(c) /\ Undisposed(c) /\ CaseOf(record, c).closed
           /\ Skipped(d) /\ Unrecognized(d)

\* The record has a problem run() reports.
HasProblems == ~AllClosed \/ MissingCases # {} \/ UnrecognizedCases # {}

ExpectedKinds ==
    (IF AllClosed THEN <<>> ELSE <<"open">>)
        \o (IF MissingCases = {} THEN <<>> ELSE <<"missing">>)
        \o (IF UnrecognizedCases = {} THEN <<>> ELSE <<"unrecognized">>)

\* C9: the diagnostics of one run() are, in this order, the open-case, the
\* missing-disposition and the unrecognized-disposition diagnostic, each
\* present exactly when its condition holds, and all are in the log when
\* TimeAnalyzer.evaluate is about to be invoked, no slot written yet.
C9_DiagnosticOrder ==
    /\ (runs = 1 /\ pc \in {"line38", "idle"}) => Kinds = ExpectedKinds
    /\ (runs = 1 /\ pc = "line38") => \A c \in ChargeIds(record) : writes[c] = 0

\* C9 witness: TimeAnalyzer.evaluate is about to be invoked and the log holds
\* the three diagnostics.
C9_Witness == runs = 1 /\ pc = "line38" /\ Len(errors) = 3

IsPrefix(s, t) == Len(s) <= Len(t) /\ \A k \in 1..Len(s) : s[k] = t[k]

Complete(json) == json # <<>> /\ RequiredFields \subseteq DOMAIN json[1]

\* C8: Users.post answers 400 to a request without JSON or without a required
\* field, 422 to a password shorter than 8 characters and to an email already
\* in use, and leaves the users as they are in these cases; otherwise it
\* answers 201 and adds exactly one user, with the email given.
C8_PostCreatesOnlyWhenValid ==
    [][request'.method = "POST" =>
        LET json == request'.json IN
        IF ~Complete(json)
        THEN response'.status = 400 /\ users' = users
        ELSE IF Len(json[1].password) < 8 \/ json[1].email \in DOMAIN users
        THEN response'.status = 422 /\ users' = users
        ELSE /\ response'.status = 201
             /\ DOMAIN users' = DOMAIN users \cup {json[1].email}
             /\ users'[json[1].email].email = json[1].email
             /\ \A m \in DOMAIN users : users'[m] = users[m]]_vars

\* C8 witness: a complete request with a long enough password was answered
\* 422 because a user created before holds its email.
C8_Witness ==
    /\ request.method = "POST" /\ Complete(request.json)
    /\ Len(request.json[1].password) >= 8
    /\ request.json[1].email \in DOMAIN users
    /\ response.status = 422
    /\ Cardinality(DOMAIN users) = 2

====
